---- MODULE Spec2Model ----
(***************************************************************************)
(* A model of screen_sentry.py: the capture loop of                        *)
(* ScreenSentry.capture_screen, the token matchers perform_ocr and         *)
(* perform_ocr_privacy_mode, the word list of generate_word_variations,    *)
(* the patterns of generate_patterns, the painter redact_words and the     *)
(* box helpers update_word_boxes and is_matching_box.                      *)
(*                                                                         *)
(* Texts are sequences of one-character strings.  Times are in ticks of    *)
(* 10 ms.  A box is a tuple <<x, y, w, h>>.                                *)
(***************************************************************************)
EXTENDS Integers, Sequences, FiniteSets, TLC

(***************************************************************************)
(* Bounds of the model.                                                    *)
(***************************************************************************)
\* longest OCR result (tokens per image_to_data call) that is enumerated
MaxTokens == 2
\* longest box list given to update_word_boxes
MaxBoxes == 2
\* longest time, in ticks, one capture / show / poll step may take
MaxStep == 3
\* the elapsed time since last_ocr_time is tracked up to this many ticks
ElapsedCap == 12
\* longest time, in ticks, one OCR call may take
MaxOcr == 7
\* number of detection cycles update_word_boxes is iterated over
MaxCycles == 3

(***************************************************************************)
(* Characters and the str methods the program uses.                        *)
(***************************************************************************)
LowerChars == <<"a","b","c","d","e","f","g","h","i","j","k","l","m",
                "n","o","p","q","r","s","t","u","v","w","x","y","z">>
UpperChars == <<"A","B","C","D","E","F","G","H","I","J","K","L","M",
                "N","O","P","Q","R","S","T","U","V","W","X","Y","Z">>

Range(s) == { s[i] : i \in DOMAIN s }

Digits == {"0","1","2","3","4","5","6","7","8","9"}
HexDigits == Digits \cup {"a","b","c","d","e","f","A","B","C","D","E","F"}
\* \w of the re module, for \b
WordChars == Range(LowerChars) \cup Range(UpperChars) \cup Digits \cup {"_"}
\* \s of the re module (the whitespace a token can hold)
SpaceChars == {" ", "\t"}

LowerChar(c) ==
    IF \E i \in DOMAIN UpperChars : UpperChars[i] = c
    THEN LowerChars[CHOOSE i \in DOMAIN UpperChars : UpperChars[i] = c]
    ELSE c
UpperChar(c) ==
    IF \E i \in DOMAIN LowerChars : LowerChars[i] = c
    THEN UpperChars[CHOOSE i \in DOMAIN LowerChars : LowerChars[i] = c]
    ELSE c

\* str.lower(), str.upper(), str.capitalize()
lower(s) == [i \in DOMAIN s |-> LowerChar(s[i])]
upper(s) == [i \in DOMAIN s |-> UpperChar(s[i])]
capitalize(s) == [i \in DOMAIN s |-> IF i = 1 THEN UpperChar(s[i]) ELSE LowerChar(s[i])]

(***************************************************************************)
(* Compiled regular expressions.  A compiled pattern is a sequence of      *)
(* items; an item is                                                       *)
(*   kind "set": a character of cs, repeated lo..hi times                  *)
(*   kind "any": any character but a newline, repeated lo..hi times        *)
(*   kind "grp": the sequence sub, repeated lo..hi times                   *)
(*   kind "wb":  \b, a word boundary                                       *)
(*   kind "nla": (?![cs]), the next character is not in cs                 *)
(* Positions count the characters consumed so far (0 = before the first).  *)
(***************************************************************************)
Item(k, cs, lo, hi, sub) == [kind |-> k, cs |-> cs, lo |-> lo, hi |-> hi, sub |-> sub]
Lit(c) == Item("set", {c}, 1, 1, <<>>)
Cls(cs, lo, hi) == Item("set", cs, lo, hi, <<>>)
Dot(lo, hi) == Item("any", {}, lo, hi, <<>>)
Grp(sub, lo, hi) == Item("grp", {}, lo, hi, sub)
WB == Item("wb", {}, 1, 1, <<>>)
NLA(cs) == Item("nla", cs, 1, 1, <<>>)

IsWordAt(text, i) == i >= 1 /\ i <= Len(text) /\ text[i] \in WordChars
\* \b at position p: exactly one of the characters around p is a word character
AtBoundary(text, p) == IsWordAt(text, p) # IsWordAt(text, p + 1)

RECURSIVE MatchItems(_, _, _, _)
RECURSIVE Repeat(_, _, _, _)

\* one repetition of item it from each position of S
Once(it, text, S) ==
    CASE it.kind = "set" ->
           { p + 1 : p \in { q \in S : q < Len(text) /\ text[q + 1] \in it.cs } }
      [] it.kind = "any" ->
           { p + 1 : p \in { q \in S : q < Len(text) /\ text[q + 1] # "\n" } }
      [] OTHER -> MatchItems(it.sub, 1, text, S)

\* the positions after lo..hi repetitions of it, n of them done to reach S
Repeat(it, text, S, n) ==
    IF S = {} THEN {}
    ELSE (IF n >= it.lo THEN S ELSE {})
         \cup (IF n >= it.hi THEN {} ELSE Repeat(it, text, Once(it, text, S), n + 1))

\* the positions after items k.. of a pattern, started from the positions S
MatchItems(items, k, text, S) ==
    IF k > Len(items) \/ S = {} THEN S
    ELSE LET it == items[k]
             T == CASE it.kind = "wb"  -> { p \in S : AtBoundary(text, p) }
                    [] it.kind = "nla" ->
                         { p \in S : ~(p < Len(text) /\ text[p + 1] \in it.cs) }
                    [] OTHER -> Repeat(it, text, S, 0)
         IN  MatchItems(items, k + 1, text, T)

\* bool(pattern.match(text)): the pattern matches from the first character
PatternMatch(items, text) == MatchItems(items, 1, text, {0}) # {}

(***************************************************************************)
(* generate_patterns: the six patterns, compiled by hand from the raw      *)
(* strings.  A pattern string is named by a Regex entry of words_to_detect *)
(* and a generated word by a Word entry.                                   *)
(***************************************************************************)
\* [-.\s]
SepChars == {"-", "."} \cup SpaceChars

\* r"\b\d{3}[-.\s]?\d{3}[-.\s]?\d{4}\b"
PhonePattern1 ==
    <<WB, Cls(Digits, 3, 3), Cls(SepChars, 0, 1), Cls(Digits, 3, 3),
      Cls(SepChars, 0, 1), Cls(Digits, 4, 4), WB>>
\* r"\(\d{3}\)\s*\d{3}[-.\s]?\d{4}\b"
PhonePattern2 ==
    <<Lit("("), Cls(Digits, 3, 3), Lit(")"), Cls(SpaceChars, 0, 99),
      Cls(Digits, 3, 3), Cls(SepChars, 0, 1), Cls(Digits, 4, 4), WB>>
\* r"\b\d{3}[-.\s]?\d{2}[-.\s]?\d{4}\b"
SsnPattern ==
    <<WB, Cls(Digits, 3, 3), Cls(SepChars, 0, 1), Cls(Digits, 2, 2),
      Cls(SepChars, 0, 1), Cls(Digits, 4, 4), WB>>
\* r"\b(?:\d{1,3}\.){3}\d{1,3}\b"
IpPattern1 ==
    <<WB, Grp(<<Cls(Digits, 1, 3), Lit(".")>>, 3, 3), Cls(Digits, 1, 3), WB>>
\* r"\b(?:\d{1,3}\.){3}\d{1,3}(?![\d.])\b"
IpPattern2 ==
    <<WB, Grp(<<Cls(Digits, 1, 3), Lit(".")>>, 3, 3), Cls(Digits, 1, 3),
      NLA(Digits \cup {"."}), WB>>
\* r"\b(?:[0-9a-fA-F]{1,4}:){7}[0-9a-fA-F]{1,4}\b"
IpPattern6 ==
    <<WB, Grp(<<Cls(HexDigits, 1, 4), Lit(":")>>, 7, 7), Cls(HexDigits, 1, 4), WB>>

Word(chars) == [pat |-> "", chars |-> chars]
Regex(name) == [pat |-> name, chars |-> <<>>]

phone_number_patterns == <<Regex("phone1"), Regex("phone2")>>
ssn_patterns == <<Regex("ssn")>>
ip_address_patterns == <<Regex("ip4"), Regex("ip4end"), Regex("ip6")>>
\* the three lists generate_patterns returns, in the order main appends them
generate_patterns == phone_number_patterns \o ssn_patterns \o ip_address_patterns

(***************************************************************************)
(* re.compile of an entry.  A generated word is parsed as a pattern over   *)
(* the characters the model's words hold: "." is any character, "?" makes  *)
(* the item before it optional (a second "?" makes it lazy, a third is an  *)
(* error), "(" opens a group that is never closed (an error), every other  *)
(* character stands for itself.  q is 0 at the start, 1 after an item with *)
(* no quantifier, 2 after "?", 3 after "??".                               *)
(***************************************************************************)
RECURSIVE CompileWord(_, _, _, _)
CompileWord(s, i, acc, q) ==
    IF i > Len(s) THEN [ok |-> TRUE, items |-> acc]
    ELSE LET c == s[i] IN
         CASE c = "(" -> [ok |-> FALSE, items |-> <<>>]
           [] c = "?" ->
                IF q = 0 \/ q = 3 THEN [ok |-> FALSE, items |-> <<>>]
                ELSE IF q = 2 THEN CompileWord(s, i + 1, acc, 3)
                ELSE LET last == acc[Len(acc)]
                         opt == Item(last.kind, last.cs, 0, 1, last.sub)
                     IN  CompileWord(s, i + 1, [acc EXCEPT ![Len(acc)] = opt], 2)
           [] c = "." -> CompileWord(s, i + 1, Append(acc, Dot(1, 1)), 1)
           [] OTHER -> CompileWord(s, i + 1, Append(acc, Lit(c)), 1)

\* re.compile(pattern) of line 162
Compile(entry) ==
    CASE entry.pat = "phone1" -> [ok |-> TRUE, items |-> PhonePattern1]
      [] entry.pat = "phone2" -> [ok |-> TRUE, items |-> PhonePattern2]
      [] entry.pat = "ssn"    -> [ok |-> TRUE, items |-> SsnPattern]
      [] entry.pat = "ip4"    -> [ok |-> TRUE, items |-> IpPattern1]
      [] entry.pat = "ip4end" -> [ok |-> TRUE, items |-> IpPattern2]
      [] entry.pat = "ip6"    -> [ok |-> TRUE, items |-> IpPattern6]
      [] OTHER -> CompileWord(entry.chars, 1, <<>>, 0)

(***************************************************************************)
(* generate_word_variations and the word list main builds.                 *)
(***************************************************************************)
default_redacted_words ==
    << <<"a","p","p","l","e">>, <<"b","a","n","a","n","a">>,
       <<"p","a","s","s","w","o","r","d">> >>

punctuation_marks == << <<".">>, <<",">>, <<"!">>, <<"?">>, <<"-","-">>, <<"-">>, <<"'">> >>

RECURSIVE Flatten(_)
Flatten(ss) == IF ss = <<>> THEN <<>> ELSE Head(ss) \o Flatten(Tail(ss))

\* the variations appended for one word, lines 222-242
VariationsOf(word) ==
    LET lo == lower(word)
        up == upper(word)
        ca == capitalize(word)
        marked(a, b, c) ==
            Flatten([m \in DOMAIN punctuation_marks |->
                       << a \o punctuation_marks[m], b \o punctuation_marks[m],
                          c \o punctuation_marks[m] >>])
    IN  <<lo, up, ca>>
        \o marked(lo, up, ca)
        \o <<lo \o <<"s">>, up \o <<"S">>, ca \o <<"s">> >>
        \o marked(lo \o <<"s">>, up \o <<"S">>, ca \o <<"s">>)

\* generate_word_variations(words_to_redact): the defaults are appended to
\* the caller's list first
generate_word_variations(words_to_redact) ==
    LET words == words_to_redact \o default_redacted_words
        vars == Flatten([w \in DOMAIN words |-> VariationsOf(words[w])])
    IN  [v \in DOMAIN vars |-> Word(vars[v])]

\* words_to_detect as the main block builds it, lines 329-342: an empty
\* input selects the default list (to which the defaults are appended again)
MainWordsToDetect(input, privacy) ==
    LET words_to_redact == IF input = <<>> THEN default_redacted_words ELSE input
        variations == generate_word_variations(words_to_redact)
    IN  IF privacy THEN variations \o generate_patterns ELSE variations

(***************************************************************************)
(* The token matchers.  An OCR call either raises or returns its tokens    *)
(* in scan order: [raised |-> BOOLEAN, data |-> sequence of tokens], a     *)
(* token being [text, conf, box].  A matcher returns [raised, logged,      *)
(* boxes]: both catch every exception, print it (logged) and return [],    *)
(* so raised, an exception leaving the matcher, is FALSE.                  *)
(***************************************************************************)
\* the confidence test with >= for >
ConfidentOrZero(conf) == conf >= 0

\* int(data['conf'][i]) > 0
Confident(conf) == conf > 0

\* text.lower() in words_to_detect (a pattern string equals no token text)
InWords(text, words) ==
    \E lowered \in {lower(text)} :
      \E i \in DOMAIN words : words[i].pat = "" /\ words[i].chars = lowered

RECURSIVE ExactBoxes(_, _, _)
ExactBoxes(data, i, words) ==
    IF i > Len(data) THEN <<>>
    ELSE LET t == data[i] IN
         IF InWords(t.text, words) /\ Confident(t.conf)
         THEN <<t.box>> \o ExactBoxes(data, i + 1, words)
         ELSE ExactBoxes(data, i + 1, words)

\* perform_ocr without its try/except
perform_ocr_uncaught(o, words) ==
    [raised |-> o.raised,
     logged |-> FALSE,
     boxes  |-> IF o.raised THEN <<>> ELSE ExactBoxes(o.data, 1, words)]

perform_ocr(o, words) ==
    [raised |-> FALSE,
     logged |-> o.raised,
     boxes  |-> IF o.raised THEN <<>> ELSE ExactBoxes(o.data, 1, words)]

\* any(pattern.match(text) for pattern in compiled_patterns)
AnyPatternMatch(compiled, text) ==
    \E i \in DOMAIN compiled : PatternMatch(compiled[i].items, text)

RECURSIVE PrivacyBoxes(_, _, _)
PrivacyBoxes(data, i, compiled) ==
    IF i > Len(data) THEN <<>>
    ELSE LET t == data[i] IN
         IF AnyPatternMatch(compiled, t.text) /\ Confident(t.conf)
         THEN <<t.box>> \o PrivacyBoxes(data, i + 1, compiled)
         ELSE PrivacyBoxes(data, i + 1, compiled)

\* perform_ocr_privacy_mode given the fixed patterns alone
perform_ocr_patterns_only(o, patterns) ==
    LET compiled == [i \in DOMAIN generate_patterns |-> Compile(generate_patterns[i])]
    IN  [raised |-> FALSE,
         logged |-> o.raised,
         boxes  |-> IF o.raised THEN <<>> ELSE PrivacyBoxes(o.data, 1, compiled)]

perform_ocr_privacy_mode(o, patterns) ==
    LET compiled == [i \in DOMAIN patterns |-> Compile(patterns[i])]
        failed == o.raised \/ \E i \in DOMAIN compiled : ~compiled[i].ok
    IN  [raised |-> FALSE,
         logged |-> failed,
         boxes  |-> IF failed THEN <<>> ELSE PrivacyBoxes(o.data, 1, compiled)]

(***************************************************************************)
(* The box helpers.                                                        *)
(***************************************************************************)
\* threshold=10 of is_matching_box
threshold == 10

\* is_matching_box with the comparison turned round
is_matching_box_inverted(box1, box2) ==
    LET dx == (2 * box1[1] + box1[3]) - (2 * box2[1] + box2[3])
        dy == (2 * box1[2] + box1[4]) - (2 * box2[2] + box2[4])
    IN  dx * dx + dy * dy > (2 * threshold) * (2 * threshold)

\* The centres are (x + w/2, y + h/2); the test sqrt(dx^2 + dy^2) < threshold
\* is computed on the doubled coordinates, where it is exact:
\* (2dx)^2 + (2dy)^2 < (2*threshold)^2.
is_matching_box(box1, box2) ==
    LET dx == (2 * box1[1] + box1[3]) - (2 * box2[1] + box2[3])
        dy == (2 * box1[2] + box1[4]) - (2 * box2[2] + box2[4])
    IN  dx * dx + dy * dy < (2 * threshold) * (2 * threshold)

RECURSIVE NewBoxes(_, _, _)
\* the loop of lines 296-299 from index i on
NewBoxes(last_word_boxes, current_word_boxes, i) ==
    IF i > Len(current_word_boxes) THEN <<>>
    ELSE LET box == current_word_boxes[i] IN
         IF ~\E j \in DOMAIN last_word_boxes : is_matching_box(box, last_word_boxes[j])
         THEN <<box>> \o NewBoxes(last_word_boxes, current_word_boxes, i + 1)
         ELSE NewBoxes(last_word_boxes, current_word_boxes, i + 1)

\* update_word_boxes with the new boxes put after the previous ones
update_word_boxes_appended(last_word_boxes, current_word_boxes) ==
    last_word_boxes \o NewBoxes(last_word_boxes, current_word_boxes, 1)

update_word_boxes(last_word_boxes, current_word_boxes) ==
    NewBoxes(last_word_boxes, current_word_boxes, 1) \o last_word_boxes

(***************************************************************************)
(* redact_words.  The image is the set of rectangles <<x1, y1, x2, y2>>    *)
(* painted on the frame so far.                                            *)
(***************************************************************************)
\* padding=1 of redact_words
padding == 1
\* time.sleep(0.1), in ticks
sleep_ticks == 10

\* the rectangle cv2.rectangle fills for one box, lines 192-196
PaintedRect(box) ==
    LET x == box[1] - padding
        y == box[2] - padding
        w == box[3] + 2 * padding
        h == box[4] + 2 * padding
    IN  <<x, y, x + w, y + h>>

redact_words(image, word_boxes) ==
    image \cup { PaintedRect(word_boxes[i]) : i \in DOMAIN word_boxes }

\* redact_words without its time.sleep
redact_sleep_none(word_boxes) == 0

\* the time redact_words sleeps: one time.sleep(0.1) per box
redact_sleep(word_boxes) == sleep_ticks * Len(word_boxes)

(***************************************************************************)
(* Inputs the model draws from.                                            *)
(***************************************************************************)
BoxA == <<10, 10, 20, 20>>
BoxB == <<500, 500, 20, 20>>

Tok(text, conf, box) == [text |-> text, conf |-> conf, box |-> box]

TextApple == <<"a","p","p","l","e">>
TextMixed == <<"a","P","P","L","E">>
TextSauce == <<"a","p","p","l","e","s","a","u","c","e">>
TextDotted == <<"A","p","p","l","e",".">>
TextPhone == <<"5","5","5","-","1","2","3","-","4","5","6","7">>
TextSsn == <<"1","2","3","-","4","5","-","6","7","8","9">>
TextIp == <<"1","9","2",".","1","6","8",".","1",".","1">>
TextHello == <<"h","e","l","l","o">>

\* tokens an OCR call may return: text, data['conf'][i] and the box
TokenPool ==
    { Tok(TextApple, 96, BoxA), Tok(TextApple, 0, BoxA), Tok(TextApple, -1, BoxB),
      Tok(TextMixed, 90, BoxB), Tok(TextSauce, 80, BoxA), Tok(TextDotted, 75, BoxB),
      Tok(TextPhone, 96, BoxB), Tok(TextPhone, 0, BoxA), Tok(TextSsn, 50, BoxA),
      Tok(TextIp, 60, BoxB), Tok(TextHello, 96, BoxA), Tok(<<>>, -1, BoxB) }

\* the tokens the capture loop's OCR calls return
LoopTokens ==
    { Tok(TextApple, 96, BoxA), Tok(TextPhone, 96, BoxB), Tok(TextSauce, 80, BoxB),
      Tok(TextApple, 0, BoxA) }

SeqsUpTo(S, n) == UNION { [1..k -> S] : k \in 0..n }

OcrOutcomes(pool) ==
    { [raised |-> TRUE, data |-> <<>>] }
    \cup { [raised |-> FALSE, data |-> d] : d \in SeqsUpTo(pool, MaxTokens) }

\* the words typed at the prompt of line 331: nothing, "pin", or ":("
WordInputs == { <<>>, << <<"p","i","n">> >>, << <<":","(">> >> }

\* boxes given to update_word_boxes
BoxPool ==
    { <<10, 10, 20, 20>>, <<11, 11, 20, 20>>, <<16, 18, 20, 20>>,
      <<10, 10, 21, 37>>, <<500, 500, 20, 20>> }

(***************************************************************************)
(* State.                                                                  *)
(***************************************************************************)
VARIABLES
    pc,                \* where capture_screen is: "start", "grab", "throttle",
                       \* "show", "poll", "done" (or "match"/"merge" below)
    privacy_mode,      \* the answer to the prompt of line 336
    words_input,       \* the words typed at the prompt of line 331
    elapsed,           \* time.time() - last_ocr_time, in ticks, up to ElapsedCap
    word_boxes,        \* the local word_boxes of capture_screen
    frame,             \* rectangles painted on the frame grabbed this iteration
    shown,             \* rectangles on the frame last given to cv2.imshow
    window_open,       \* the window "Captured Frame" exists
    error,             \* where the exception caught at line 107 was raised
    ocr_runs,          \* times the branch of line 92 was taken this iteration
    ocr_logged,        \* the matcher's except branch ran this iteration
    ocr_long,          \* this iteration's OCR call took longer than ocr_interval
    prev_ocr_long,     \* the same, of the iteration before
    ocr,               \* the OCR outcome given to the token matcher
    matched,           \* the boxes the token matcher returned
    last_word_boxes,   \* argument of update_word_boxes
    current_word_boxes,\* argument of update_word_boxes
    updated_word_boxes,\* result of update_word_boxes
    cycles             \* number of update_word_boxes calls made

loop_vars == <<elapsed, word_boxes, frame, shown, window_open, error,
               ocr_runs, ocr_logged, ocr_long, prev_ocr_long>>
match_vars == <<ocr, matched>>
merge_vars == <<last_word_boxes, current_word_boxes, updated_word_boxes, cycles>>
vars == <<pc, privacy_mode, words_input, loop_vars, match_vars, merge_vars>>

\* the words_to_detect argument of capture_screen
\* (the lists of all sessions, computed once)
WordsTable == [in \in WordInputs, p \in BOOLEAN |-> MainWordsToDetect(in, p)]
words_to_detect == WordsTable[words_input, privacy_mode]

\* ocr_interval = 0.05, in ticks
ocr_interval == 5
\* ord('q') and the escape key, line 103
QuitKeys == {113, 27}
\* values cv2.waitKey(1) returns: no key, 'q', escape, 'x'
Keys == {-1, 113, 27, 120}

Advance(e, d) == IF e + d > ElapsedCap THEN ElapsedCap ELSE e + d

LoopIdle ==
    /\ elapsed = 0
    /\ word_boxes = <<>>
    /\ frame = {}
    /\ shown = {}
    /\ window_open = FALSE
    /\ error = "none"
    /\ ocr_runs = 0
    /\ ocr_logged = FALSE
    /\ ocr_long = FALSE
    /\ prev_ocr_long = FALSE
MatchIdle == ocr = [raised |-> FALSE, data |-> <<>>] /\ matched = <<>>
MergeIdle ==
    /\ last_word_boxes = <<>>
    /\ current_word_boxes = <<>>
    /\ updated_word_boxes = <<>>
    /\ cycles = 0

(***************************************************************************)
(* capture_screen.                                                         *)
(***************************************************************************)
Init ==
    /\ pc = "start"
    /\ privacy_mode \in BOOLEAN
    /\ words_input \in WordInputs
    /\ LoopIdle
    /\ MatchIdle
    /\ MergeIdle

\* the exception handler of lines 107-108: the loop is left, the window of
\* line 82 is not destroyed
Caught(where) ==
    /\ pc' = "done"
    /\ error' = where

\* lines 72-86: open mss, pick the monitor, create the window, take the time
Start ==
    /\ pc = "start"
    /\ \/ /\ pc' = "grab"
          /\ window_open' = TRUE
          /\ elapsed' = 0
          /\ error' = error
       \/ /\ Caught("setup")
          /\ UNCHANGED <<window_open, elapsed>>
    /\ UNCHANGED <<privacy_mode, words_input, word_boxes, frame, shown,
                   ocr_runs, ocr_logged, ocr_long, prev_ocr_long,
                   match_vars, merge_vars>>

\* lines 89-90: grab the frame and convert it to grayscale
Capture ==
    /\ pc = "grab"
    /\ \E d \in 0..MaxStep :
         \/ /\ pc' = "throttle"
            /\ frame' = {}
            /\ elapsed' = Advance(elapsed, d)
            /\ error' = error
         \/ /\ Caught("grab")
            /\ UNCHANGED <<frame, elapsed>>
         \/ /\ Caught("cvtColor")
            /\ UNCHANGED <<frame, elapsed>>
    /\ ocr_runs' = 0
    /\ ocr_logged' = FALSE
    /\ ocr_long' = FALSE
    /\ prev_ocr_long' = ocr_long
    /\ UNCHANGED <<privacy_mode, words_input, word_boxes, shown, window_open,
                   match_vars, merge_vars>>

\* the test of line 92 with >= for >
OcrDueInclusive(e) == e >= ocr_interval

\* the test of line 92
OcrDue(e) == e > ocr_interval

\* lines 94-97: the matcher of the session's mode
Detection(o) ==
    IF privacy_mode
    THEN perform_ocr_privacy_mode(o, words_to_detect)
    ELSE perform_ocr(o, words_to_detect)

\* lines 92-98 when the interval has passed: take the time, detect, paint
Detect ==
    /\ pc = "throttle"
    /\ OcrDue(elapsed)
    /\ \E o \in OcrOutcomes(LoopTokens) :
       \E r \in {Detection(o)}, d \in (0..MaxStep) \cup {MaxOcr} :
         /\ ocr_logged' = r.logged
         /\ ocr_long' = (d > ocr_interval)
         /\ IF r.raised
            THEN /\ Caught("ocr")
                 /\ UNCHANGED <<word_boxes, frame, elapsed>>
            ELSE /\ word_boxes' = r.boxes
                 /\ \/ /\ frame' = redact_words(frame, r.boxes)
                       /\ elapsed' = Advance(Advance(0, d), redact_sleep(r.boxes))
                       /\ pc' = "show"
                       /\ error' = error
                    \/ /\ r.boxes # <<>>
                       /\ Caught("redact")
                       /\ UNCHANGED <<frame, elapsed>>
    /\ ocr_runs' = ocr_runs + 1
    /\ UNCHANGED <<privacy_mode, words_input, shown, window_open, prev_ocr_long,
                   match_vars, merge_vars>>

\* line 92 when the interval has not passed
Skip ==
    /\ pc = "throttle"
    /\ ~OcrDue(elapsed)
    /\ pc' = "show"
    /\ UNCHANGED <<privacy_mode, words_input, loop_vars, match_vars, merge_vars>>

\* line 100: cv2.imshow
Show ==
    /\ pc = "show"
    /\ \/ /\ pc' = "poll"
          /\ shown' = frame
          /\ error' = error
       \/ /\ Caught("imshow")
          /\ shown' = shown
    /\ UNCHANGED <<privacy_mode, words_input, elapsed, word_boxes, frame, window_open,
                   ocr_runs, ocr_logged, ocr_long, prev_ocr_long, match_vars, merge_vars>>

\* lines 102-106: poll the keyboard; on 'q' or escape leave the loop and
\* destroy the window
Poll ==
    /\ pc = "poll"
    /\ \/ \E key \in Keys, d \in 0..MaxStep :
            IF key \in QuitKeys
            THEN /\ pc' = "done"
                 /\ window_open' = FALSE
                 /\ UNCHANGED <<elapsed, error>>
            ELSE /\ pc' = "grab"
                 /\ elapsed' = Advance(elapsed, d)
                 /\ UNCHANGED <<window_open, error>>
       \/ /\ Caught("waitKey")
          /\ UNCHANGED <<window_open, elapsed>>
    /\ UNCHANGED <<privacy_mode, words_input, word_boxes, frame, shown,
                   ocr_runs, ocr_logged, ocr_long, prev_ocr_long, match_vars, merge_vars>>

Next == Start \/ Capture \/ Detect \/ Skip \/ Show \/ Poll

Spec == Init /\ [][Next]_vars

(***************************************************************************)
(* The token matcher alone: one call on any OCR outcome.                   *)
(***************************************************************************)
InitMatch ==
    /\ pc = "match"
    /\ privacy_mode \in BOOLEAN
    /\ words_input \in WordInputs
    /\ ocr \in OcrOutcomes(TokenPool)
    /\ matched = <<>>
    /\ LoopIdle
    /\ MergeIdle

Match ==
    /\ pc = "match"
    /\ pc' = "matched"
    /\ matched' = Detection(ocr).boxes
    /\ UNCHANGED <<privacy_mode, words_input, ocr, loop_vars, merge_vars>>

NextMatch == Match

SpecMatch == InitMatch /\ [][NextMatch]_vars

(***************************************************************************)
(* update_word_boxes alone: the same detections merged cycle after cycle.  *)
(***************************************************************************)
InitMerge ==
    /\ pc = "merge"
    /\ privacy_mode = FALSE
    /\ words_input = <<>>
    /\ last_word_boxes \in SeqsUpTo(BoxPool, MaxBoxes)
    /\ current_word_boxes \in SeqsUpTo(BoxPool, MaxBoxes)
    /\ updated_word_boxes = <<>>
    /\ cycles = 0
    /\ LoopIdle
    /\ MatchIdle

\* one detection cycle: the result of the cycle before is the next "last"
Merge ==
    /\ pc = "merge"
    /\ cycles < MaxCycles
    /\ cycles' = cycles + 1
    /\ last_word_boxes' = IF cycles = 0 THEN last_word_boxes ELSE updated_word_boxes
    /\ updated_word_boxes' = update_word_boxes(last_word_boxes', current_word_boxes)
    /\ UNCHANGED <<pc, privacy_mode, words_input, current_word_boxes,
                   loop_vars, match_vars>>

NextMerge == Merge

SpecMerge == InitMerge /\ [][NextMerge]_vars

(***************************************************************************)
(* Properties.                                                             *)
(***************************************************************************)
\* the elements of seq at the indices I, in their order in seq
Pick(seq, I) ==
    LET n == Cardinality(I)
        f == CHOOSE g \in [1..n -> I] : \A a, b \in 1..n : a < b => g[a] < g[b]
    IN  [k \in 1..n |-> seq[f[k]]]

\* C1: whenever a frame has been shown (the loop is at its key poll), every
\* box of word_boxes is painted, with its padding, on the frame shown,
\* whether or not OCR ran in that iteration.
C1_AllTrackedPainted ==
    pc = "poll" => \A i \in DOMAIN word_boxes : PaintedRect(word_boxes[i]) \in shown

\* a frame shown with a non-empty word_boxes, every box painted
C1_Witness ==
    /\ pc = "poll"
    /\ word_boxes # <<>>
    /\ \A i \in DOMAIN word_boxes : PaintedRect(word_boxes[i]) \in shown

\* C2: the tracked box set never loses a box: every box of word_boxes is
\* still in word_boxes after every step of the loop.
C2_NeverLosesBox ==
    [][\A i \in DOMAIN word_boxes :
          \E j \in DOMAIN word_boxes' : word_boxes'[j] = word_boxes[i]]_vars

\* C3: update_word_boxes(previous, current) is the boxes of current that
\* match no box of previous, in their order, followed by previous; so it is
\* at least as long as previous, and previous itself when current is empty.
C3_MergeShape ==
    cycles >= 1 =>
      LET fresh == { i \in DOMAIN current_word_boxes :
                       \A j \in DOMAIN last_word_boxes :
                         ~is_matching_box(current_word_boxes[i], last_word_boxes[j]) }
      IN  /\ updated_word_boxes = Pick(current_word_boxes, fresh) \o last_word_boxes
          /\ Len(updated_word_boxes) >= Len(last_word_boxes)
          /\ current_word_boxes = <<>> => updated_word_boxes = last_word_boxes

\* a merge that kept one box of current and dropped the other
C3_Witness ==
    /\ cycles = 1
    /\ last_word_boxes # <<>>
    /\ Len(current_word_boxes) = 2
    /\ Len(updated_word_boxes) = Len(last_word_boxes) + 1

\* C4: a detection cycle whose OCR call fails keeps the loop running and
\* leaves the tracked set as it was, painted on the frame of that iteration.
C4_FailureKeepsTracked ==
    [][(pc = "throttle" /\ ocr_logged') =>
         /\ pc' = "show"
         /\ word_boxes' = word_boxes
         /\ frame' = redact_words({}, word_boxes)]_vars

\* the boxes of the tokens with confidence > 0 that an entry of entries
\* matches from the first character, in scan order
PrivacySelected(entries) ==
    LET compiled == [e \in DOMAIN entries |-> Compile(entries[e]).items]
        sel == { i \in DOMAIN ocr.data :
                   /\ ocr.data[i].conf > 0
                   /\ \E e \in DOMAIN compiled :
                        PatternMatch(compiled[e], ocr.data[i].text) }
    IN  [k \in 1..Cardinality(sel) |-> Pick(ocr.data, sel)[k].box]

C6_PositiveConfidence ==
    pc = "matched" =>
      \E I \in SUBSET { i \in DOMAIN ocr.data : ocr.data[i].conf > 0 } :
        matched = [k \in DOMAIN Pick(ocr.data, I) |-> Pick(ocr.data, I)[k].box]

\* a word of the list seen with confidence 0 gave no box, beside one that did
C6_Witness ==
    /\ pc = "matched"
    /\ ocr.data = <<Tok(TextApple, 0, BoxA), Tok(TextApple, 96, BoxA)>>
    /\ matched = <<BoxA>>

\* C7: detection runs in an iteration iff the time since the last OCR call
\* (since loop start for the first) exceeds ocr_interval; an iteration without
\* it leaves word_boxes unchanged; and the iteration after an OCR call longer
\* than the interval runs exactly one detection.
C7_Throttle ==
    /\ [][pc = "throttle" =>
            /\ (ocr_runs' = 1) <=> (elapsed > ocr_interval)
            /\ (ocr_runs' = 0) <=> ~(elapsed > ocr_interval)
            /\ ocr_runs' = 0 => word_boxes' = word_boxes]_vars
    /\ []((pc \in {"show", "poll"} /\ prev_ocr_long) => ocr_runs = 1)

\* the iteration after a long OCR call has run its one detection
C7_Witness == pc = "show" /\ prev_ocr_long /\ ocr_runs = 1

\* C8: whenever the loop has terminated, by cancellation or by an error,
\* the window has been destroyed.
C8_ReleasedWhenTerminated == pc = "done" => ~window_open

\* C9 as stated: only a capture failure terminates the loop; a failure of
\* the grayscale conversion does not.
C9_OnlyCaptureTerminates ==
    (pc = "done" /\ error # "none") => error \in {"setup", "grab"}

\* C9 amended: a failure inside the detection call is caught there and the
\* loop goes on to show the frame; every error recorded by the handler of
\* the loop was raised outside the detection call and has ended the loop.
C9_Classified ==
    /\ [][(pc = "throttle" /\ ocr_logged') => (pc' = "show" /\ error' = "none")]_vars
    /\ [](error # "none" =>
            (pc = "done" /\ error \in {"setup", "grab", "cvtColor", "redact",
                                       "imshow", "waitKey"}))

\* a frame shown in an iteration whose detection call failed
C9_Witness == pc = "poll" /\ ocr_logged

\* C10: merging the same detections again adds nothing: after the first
\* cycle the result of update_word_boxes no longer changes.
C10_SameDetectionsAddNothing ==
    [][cycles >= 1 => updated_word_boxes' = updated_word_boxes]_vars

\* a second cycle after a first one that added a new box in front
C10_Witness ==
    /\ cycles = 2
    /\ current_word_boxes # <<>>
    /\ Len(updated_word_boxes) > Len(current_word_boxes)
    /\ updated_word_boxes[1] = current_word_boxes[1]
    /\ updated_word_boxes = last_word_boxes

====
